---------------------------- MODULE Spec2Model ----------------------------
(***************************************************************************)
(* Model of scripts/update_live_intel.py: the six source fetchers and      *)
(* build_payload.                                                          *)
(*                                                                         *)
(* Text is a sequence of one-character strings, so that normalisation,     *)
(* lower-casing, substring search and string comparison are computed the   *)
(* way the script computes them.  Python's None is the value None below.   *)
(* A call that can raise returns Raise(message) or Return(value).          *)
(***************************************************************************)
EXTENDS Integers, Sequences, FiniteSets, TLC

None == <<"<None>">>

\* Python's `x or d` for a string-or-None x.
Or(x, d) == IF x = None \/ x = <<>> THEN d ELSE x

Raise(m) == [raised |-> TRUE, exc |-> m, val |-> <<>>]
Return(v) == [raised |-> FALSE, exc |-> <<>>, val |-> v]

Min(a, b) == IF a <= b THEN a ELSE b

\* Python's s[:n].
Take(s, n) == SubSeq(s, 1, Min(Len(s), n))

(***************************************************************************)
(* Configuration                                                           *)
(***************************************************************************)
KEYWORDS ==
  << <<"t","a","r","i","f","f">>,
     <<"t","a","r","i","f","f","s">>,
     <<"d","u","t","y">>,
     <<"d","u","t","i","e","s">>,
     <<"c","o","u","n","t","e","r","m","e","a","s","u","r","e">>,
     <<"c","o","u","n","t","e","r","m","e","a","s","u","r","e","s">>,
     <<"r","e","t","a","l","i","a","t">>,
     <<"s","e","c","t","i","o","n"," ","2","3","2">>,
     <<"s","e","c","t","i","o","n"," ","3","0","1">>,
     <<"i","e","e","p","a">>,
     <<"c","u","s","t","o","m","s">>,
     <<"t","r","a","d","e">>,
     <<"i","m","p","o","r","t">>,
     <<"e","x","p","o","r","t">> >>

\* A URL is a sequence of tokens; "http" is a token of its own because the
\* MOFCOM scraper tests href.startswith("http").
MofcomBase == <<"http", "s://english.mofcom.gov.cn">>

FEEDS ==
  [ federal_register |->
      [ base   |-> <<"https://www.federalregister.gov/api/v1/documents.json">>,
        terms  |-> << "tariff", "duty", "section 232", "reciprocal tariff",
                      "de minimis" >>,
        source |-> "Federal Register API" ],
    cbp_csms |->
      [ url    |-> <<"https://content.govdelivery.com/accounts/USDHSCBP/widgets/USDHSCBP_WIDGET_2.rss">>,
        source |-> "U.S. Customs and Border Protection CSMS (GovDelivery RSS)" ],
    eu_commission |->
      [ url    |-> <<"https://ec.europa.eu/commission/presscorner/api/rss?language=en">>,
        source |-> "European Commission Press Corner RSS" ],
    uk_dbt |->
      [ url    |-> <<"https://www.gov.uk/search/news-and-communications.atom">>,
        source |-> "UK GOV.UK DBT news Atom feed" ],
    china_mofcom |->
      [ url    |-> MofcomBase \o <<"/">>,
        source |-> "MOFCOM English website" ],
    canada_finance |->
      [ url    |-> <<"https://www.canada.ca/en/department-finance/programs/international-trade-finance-policy/canadas-response-us-tariffs.html">>,
        source |-> "Government of Canada Department of Finance" ] ]

\* The slice bounds of the script.
FederalRegisterCap == 80
CbpCap == 40
EuCap == 25
UkCap == 25
MofcomCap == 25
DescriptionCap == 700
SummaryCap == 900

(***************************************************************************)
(* Text helpers                                                            *)
(***************************************************************************)
\* What the regular expression class \s matches, among the characters used.
IsWs(c) == c \in {" ", "\t", "\n", "nbsp"}

Upper == <<"A","B","C","D","E","F","G","H","I","J","K","L","M",
           "N","O","P","Q","R","S","T","U","V","W","X","Y","Z">>
LowerOf == <<"a","b","c","d","e","f","g","h","i","j","k","l","m",
             "n","o","p","q","r","s","t","u","v","w","x","y","z">>

ToLower == [c \in {Upper[i] : i \in 1..26} |->
             LowerOf[CHOOSE i \in 1..26 : Upper[i] = c]]

LowerChar(c) == IF c \in DOMAIN ToLower THEN ToLower[c] ELSE c

lower(t) == [i \in 1..Len(t) |-> LowerChar(t[i])]

\* Python's `k in t` for strings.
IsSubstr(k, t) ==
  \/ k = <<>>
  \/ \E i \in 0..(Len(t) - Len(k)) :
       t[i + 1] = k[1] /\ SubSeq(t, i + 1, i + Len(k)) = k

contains_keyword(text) ==
  LET t == lower(Or(text, <<>>))
  IN  \E j \in 1..Len(KEYWORDS) : IsSubstr(KEYWORDS[j], t)

RECURSIVE LStrip(_)
LStrip(s) == IF s # <<>> /\ IsWs(Head(s)) THEN LStrip(Tail(s)) ELSE s

RECURSIVE RStrip(_)
RStrip(s) ==
  IF s # <<>> /\ IsWs(s[Len(s)]) THEN RStrip(SubSeq(s, 1, Len(s) - 1)) ELSE s

strip(s) == RStrip(LStrip(s))

\* re.sub(r"\s+", " ", s)
RECURSIVE CollapseWs(_)
CollapseWs(s) ==
  IF s = <<>> THEN <<>>
  ELSE IF IsWs(Head(s))
       THEN <<" ">> \o CollapseWs(LStrip(s))
       ELSE <<Head(s)>> \o CollapseWs(Tail(s))

normalize_ws(text) == CollapseWs(strip(Or(text, <<>>)))

\* The first index >= i at which `pat` starts in s, or 0.
FindFrom(s, pat, i) ==
  LET hits == { j \in i..(Len(s) - Len(pat) + 1) :
                  SubSeq(s, j, j + Len(pat) - 1) = pat }
  IN  IF hits = {} THEN 0 ELSE CHOOSE j \in hits : \A k \in hits : j <= k

\* re.sub(open [\s\S]*? close, " ", s, flags=re.IGNORECASE)
RECURSIVE RemoveBlocks(_, _, _)
RemoveBlocks(s, open, close) ==
  LET a == FindFrom(lower(s), open, 1)
      b == IF a = 0 THEN 0 ELSE FindFrom(lower(s), close, a + Len(open))
  IN  IF a = 0 \/ b = 0 THEN s
      ELSE SubSeq(s, 1, a - 1) \o <<" ">>
           \o RemoveBlocks(SubSeq(s, b + Len(close), Len(s)), open, close)

\* re.sub(r"<[^>]+>", " ", s)
RECURSIVE RemoveTags(_)
RemoveTags(s) ==
  LET a == FindFrom(s, <<"<">>, 1)
      b == IF a = 0 THEN 0 ELSE FindFrom(s, <<">">>, a + 2)
      \* [^>]+ needs one character other than ">" after the "<"
      ok == a # 0 /\ b # 0 /\ s[a + 1] # ">"
  IN  IF a = 0 THEN s
      ELSE IF ok
           THEN SubSeq(s, 1, a - 1) \o <<" ">>
                \o RemoveTags(SubSeq(s, b + 1, Len(s)))
           ELSE SubSeq(s, 1, a) \o RemoveTags(SubSeq(s, a + 1, Len(s)))

\* html.unescape, for the entities of the input alphabet: an entity is one
\* token of the text.
unescape(s) ==
  [i \in 1..Len(s) |->
     CASE s[i] = "&nbsp;" -> "nbsp"
       [] s[i] = "&amp;"  -> "&"
       [] OTHER           -> s[i]]

strip_tags(html) ==
  LET t1 == RemoveBlocks(html, <<"<","s","c","r","i","p","t">>,
                         <<"<","/","s","c","r","i","p","t",">">>)
      t2 == RemoveBlocks(t1, <<"<","s","t","y","l","e">>,
                         <<"<","/","s","t","y","l","e",">">>)
      t3 == RemoveTags(t2)
  IN  normalize_ws(unescape(t3))

(***************************************************************************)
(* Format parsers.  An XML document is [wellformed, channel, items] (RSS)  *)
(* or [wellformed, entries] (Atom); an element's text is a string, or None *)
(* when the element is absent.                                             *)
(***************************************************************************)
FetchResult(name) ==
  [ source     |-> FEEDS[name].source,
    source_url |-> IF name = "federal_register" THEN FEEDS[name].base
                   ELSE FEEDS[name].url,
    items      |-> <<>>,
    errors     |-> <<>> ]

\* ", ".join(parts)
RECURSIVE Join(_, _)
Join(parts, sep) ==
  IF parts = <<>> THEN <<>>
  ELSE IF Len(parts) = 1 THEN parts[1]
       ELSE parts[1] \o sep \o Join(Tail(parts), sep)

RssCategory(cats) ==
  LET kept == SelectSeq(cats, LAMBDA c : strip(Or(c, <<>>)) # <<>>)
  IN  Join([i \in 1..Len(kept) |-> normalize_ws(Or(kept[i], <<>>))],
           <<",", " ">>)

parse_rss_items(xml) ==
  IF ~xml.wellformed THEN Raise(<<"not well-formed (invalid token)">>)
  ELSE IF ~xml.channel THEN Return(<<>>)
  ELSE Return(
    [i \in 1..Len(xml.items) |->
       LET item == xml.items[i]
       IN  [ title       |-> normalize_ws(Or(item.title, <<>>)),
             link        |-> normalize_ws(Or(item.link, <<>>)),
             pub_date    |-> normalize_ws(Or(item.pubDate, <<>>)),
             guid        |-> normalize_ws(Or(item.guid, <<>>)),
             category    |-> RssCategory(item.category),
             description |->
               Take(strip_tags(Or(item.description, <<>>)), DescriptionCap) ]])

parse_atom_entries(xml) ==
  IF ~xml.wellformed THEN Raise(<<"not well-formed (invalid token)">>)
  ELSE Return(
    [i \in 1..Len(xml.entries) |->
       LET entry == xml.entries[i]
       IN  [ title   |-> normalize_ws(Or(entry.title, <<>>)),
             link    |-> IF entry.link = None THEN <<>>
                         ELSE normalize_ws(entry.link),
             updated |-> normalize_ws(Or(entry.updated, <<>>)),
             summary |-> normalize_ws(Or(entry.summary, <<>>)) ]])

(***************************************************************************)
(* Single-request fetchers.  `resp` is what fetch_text(url) did: Raise(m)  *)
(* or Return(body).                                                        *)
(***************************************************************************)
CbpRelevant(i) == contains_keyword(i.title \o <<" ">> \o i.description)

\* A fetch_cbp_csms whose except clause drops the exception.
fetch_cbp_csms_Silent(resp) ==
  LET out == FetchResult("cbp_csms")
      parsed == IF resp.raised THEN resp ELSE parse_rss_items(resp.val)
  IN  IF parsed.raised THEN out
      ELSE [out EXCEPT !.items = Take(SelectSeq(parsed.val, CbpRelevant), CbpCap)]

fetch_cbp_csms(resp) ==
  LET out == FetchResult("cbp_csms")
      parsed == IF resp.raised THEN resp ELSE parse_rss_items(resp.val)
  IN  IF parsed.raised
      THEN [out EXCEPT !.errors = Append(@, parsed.exc)]
      ELSE LET filtered == SelectSeq(parsed.val, CbpRelevant)
           IN  [out EXCEPT !.items = Take(filtered, CbpCap)]

EuRelevant(i) ==
  contains_keyword(i.title \o <<" ">> \o i.description \o <<" ">> \o i.category)

\* A fetch_eu_feed without the fallback to the unfiltered items.
fetch_eu_feed_Strict(resp) ==
  LET out == FetchResult("eu_commission")
      parsed == IF resp.raised THEN resp ELSE parse_rss_items(resp.val)
  IN  IF parsed.raised
      THEN [out EXCEPT !.errors = Append(@, parsed.exc)]
      ELSE [out EXCEPT !.items = Take(SelectSeq(parsed.val, EuRelevant), EuCap)]

fetch_eu_feed(resp) ==
  LET out == FetchResult("eu_commission")
      parsed == IF resp.raised THEN resp ELSE parse_rss_items(resp.val)
  IN  IF parsed.raised
      THEN [out EXCEPT !.errors = Append(@, parsed.exc)]
      ELSE LET items == parsed.val
               filtered == SelectSeq(items, EuRelevant)
           IN  [out EXCEPT
                  !.items = Take(IF filtered # <<>> THEN filtered ELSE items,
                                 EuCap)]

UkRelevant(i) == contains_keyword(i.title \o <<" ">> \o i.summary)

\* A fetch_uk_feed that falls back to the unfiltered entries.
fetch_uk_feed_Fallback(resp) ==
  LET out == FetchResult("uk_dbt")
      parsed == IF resp.raised THEN resp ELSE parse_atom_entries(resp.val)
  IN  IF parsed.raised
      THEN [out EXCEPT !.errors = Append(@, parsed.exc)]
      ELSE LET filtered == SelectSeq(parsed.val, UkRelevant)
           IN  [out EXCEPT
                  !.items = Take(IF filtered # <<>> THEN filtered
                                 ELSE parsed.val, UkCap)]

fetch_uk_feed(resp) ==
  LET out == FetchResult("uk_dbt")
      parsed == IF resp.raised THEN resp ELSE parse_atom_entries(resp.val)
  IN  IF parsed.raised
      THEN [out EXCEPT !.errors = Append(@, parsed.exc)]
      ELSE LET filtered == SelectSeq(parsed.val, UkRelevant)
           IN  [out EXCEPT !.items = Take(filtered, UkCap)]

\* The MOFCOM page is the sequence of (href, title) pairs its anchor pattern
\* finds; an href is a sequence of URL tokens.
MofcomFull(href) ==
  IF href # <<>> /\ href[1] = "http" THEN href ELSE MofcomBase \o href

IsYear(tok) == tok \in {"2024", "2025", "2026"}

\* re.search(r"/art/(\d{4})/", full)
MofcomYear(full) ==
  LET hits == { i \in 1..(Len(full) - 2) :
                  full[i] = "/art/" /\ IsYear(full[i + 1]) /\ full[i + 2] = "/" }
  IN  IF hits = {} THEN <<>>
      ELSE <<full[(CHOOSE i \in hits : \A k \in hits : i <= k) + 1]>>

RECURSIVE MofcomRows(_, _)
MofcomRows(anchors, seen) ==
  IF anchors = <<>> THEN <<>>
  ELSE LET full == MofcomFull(Head(anchors).href)
       IN  IF full \in seen THEN MofcomRows(Tail(anchors), seen)
           ELSE << [ title       |-> normalize_ws(unescape(Head(anchors).title)),
                     link        |-> full,
                     pub_date    |-> MofcomYear(full),
                     description |-> <<"MOFCOM spokesperson remarks entry">> ] >>
                \o MofcomRows(Tail(anchors), seen \cup {full})

MofcomRelevant(r) ==
  \/ contains_keyword(r.title)
  \/ IsSubstr(<<"s","p","o","k","e","s","p","e","r","s","o","n">>, lower(r.title))

MofcomPlaceholder ==
  [ title       |-> <<"MOFCOM English feed temporarily unavailable; check source directly.">>,
    link        |-> FEEDS["china_mofcom"].url,
    pub_date    |-> <<>>,
    description |-> <<"Automated pull failed in this run. Open source URL for latest postings.">> ]

\* A fetch_china_mofcom whose fallback returns the rows uncut.
fetch_china_mofcom_Uncut(resp) ==
  LET out == FetchResult("china_mofcom")
  IN  IF resp.raised
      THEN [out EXCEPT !.errors = Append(@, resp.exc),
                       !.items = <<MofcomPlaceholder>>]
      ELSE LET rows == MofcomRows(resp.val, {})
               filtered == SelectSeq(rows, MofcomRelevant)
           IN  [out EXCEPT
                  !.items = IF filtered # <<>> THEN Take(filtered, MofcomCap)
                            ELSE rows]

fetch_china_mofcom(resp) ==
  LET out == FetchResult("china_mofcom")
  IN  IF resp.raised
      THEN [out EXCEPT !.errors = Append(@, resp.exc),
                       !.items = <<MofcomPlaceholder>>]
      ELSE LET rows == MofcomRows(resp.val, {})
               filtered == SelectSeq(rows, MofcomRelevant)
           IN  [out EXCEPT
                  !.items = Take(IF filtered # <<>> THEN filtered ELSE rows,
                                 MofcomCap)]

\* The Canada page is [modified, markers]: the content of its dcterms.modified
\* meta tag (None when absent) and which of the four marker phrases its text
\* holds; the text window around marker m is the one-token string Snippet(m).
Snippet(m) == <<"snippet", m>>

CanadaMarkers ==
  << "Countermeasures in response to U.S. tariffs",
     "counter tariffs on steel, aluminum and automobiles remain",
     "removed counter tariffs",
     "25 per cent tariffs" >>

CanadaSummary(html) ==
  LET found == SelectSeq(CanadaMarkers, LAMBDA m : m \in html.markers)
      snippets == [i \in 1..Len(found) |-> Snippet(found[i])]
  IN  IF snippets # <<>>
      THEN Take(normalize_ws(Join(snippets, <<" ", "|", " ">>)), SummaryCap)
      ELSE <<"Official policy page for Canada's tariff response.">>

\* A fetch_canada_page that returns its item also when the request failed.
fetch_canada_page_Always(resp) ==
  LET out == FetchResult("canada_finance") @@ [dcterms_modified |-> None]
      item == [ title       |-> <<"Canada's response to U.S. tariffs (policy page)">>,
                link        |-> FEEDS["canada_finance"].url,
                pub_date    |-> <<>>,
                description |-> <<"Official policy page for Canada's tariff response.">> ]
  IN  IF resp.raised
      THEN [out EXCEPT !.errors = Append(@, resp.exc), !.items = <<item>>]
      ELSE [out EXCEPT
              !.dcterms_modified = resp.val.modified,
              !.items = << [item EXCEPT
                              !.pub_date = Or(resp.val.modified, <<>>),
                              !.description = CanadaSummary(resp.val)] >>]

fetch_canada_page(resp) ==
  LET out == FetchResult("canada_finance") @@ [dcterms_modified |-> None]
  IN  IF resp.raised
      THEN [out EXCEPT !.errors = Append(@, resp.exc)]
      ELSE LET mod == resp.val.modified
           IN  [out EXCEPT
                  !.dcterms_modified = mod,
                  !.items =
                    << [ title       |-> <<"Canada's response to U.S. tariffs (policy page)">>,
                         link        |-> FEEDS["canada_finance"].url,
                         pub_date    |-> Or(mod, <<>>),
                         description |-> CanadaSummary(resp.val) ] >>]

(***************************************************************************)
(* fetch_federal_register.  The body of a response is [wellformed,         *)
(* has_results, results]: whether json.loads accepts it, whether it has    *)
(* the key "results", and the list under it.  An entry is a JSON object    *)
(* [json |-> "object", document_number, ...] whose absent or null fields   *)
(* are None, or a value that is no object, [json |-> "string"].            *)
(* `merged` is the dict of the function, in insertion order: a sequence    *)
(* of [key, item].                                                         *)
(***************************************************************************)
json_loads(raw) ==
  IF raw.wellformed THEN Return(raw)
  ELSE Raise(<<"Expecting value: line 1 column 1 (char 0)">>)

DictHas(merged, key) == \E i \in 1..Len(merged) : merged[i].key = key

DictIndex(merged, key) == CHOOSE i \in 1..Len(merged) : merged[i].key = key

\* dict.setdefault(field, val) on a record
SetDefault(rec, field, val) ==
  IF field \in DOMAIN rec THEN rec ELSE rec @@ (field :> val)

\* A MergeDoc in which a later relevant entry replaces the item of its key.
MergeDoc_Overwrite(merged, doc, term) ==
  IF doc.json # "object"
  THEN Raise(<<"'str' object has no attribute 'get'">>)
  ELSE
    LET doc_num == Or(doc.document_number, <<>>)
        key == Or(doc_num, Or(doc.html_url, <<>>))
        title == normalize_ws(Or(doc.title, <<>>))
        abstract == normalize_ws(Or(doc.abstract, <<>>))
        item == [ document_number  |-> doc_num,
                  publication_date |-> doc.publication_date,
                  title            |-> title,
                  type             |-> doc.type,
                  html_url         |-> doc.html_url,
                  raw_text_url     |-> doc.raw_text_url,
                  term_hit         |-> term ]
    IN  IF key = <<>> THEN Return(merged)
        ELSE IF ~contains_keyword(title \o <<" ">> \o abstract)
             THEN Return(merged)
        ELSE IF ~DictHas(merged, key)
             THEN Return(Append(merged, [key |-> key, item |-> item]))
        ELSE Return([merged EXCEPT ![DictIndex(merged, key)].item = item])

\* One pass of the loop over payload["results"], lines 123-146.
MergeDoc(merged, doc, term) ==
  IF doc.json # "object"
  THEN Raise(<<"'str' object has no attribute 'get'">>)
  ELSE
    LET doc_num == Or(doc.document_number, <<>>)
        key == Or(doc_num, Or(doc.html_url, <<>>))
        title == normalize_ws(Or(doc.title, <<>>))
        abstract == normalize_ws(Or(doc.abstract, <<>>))
        item == [ document_number  |-> doc_num,
                  publication_date |-> doc.publication_date,
                  title            |-> title,
                  type             |-> doc.type,
                  html_url         |-> doc.html_url,
                  raw_text_url     |-> doc.raw_text_url,
                  term_hit         |-> term ]
    IN  IF key = <<>> THEN Return(merged)
        ELSE IF ~contains_keyword(title \o <<" ">> \o abstract)
             THEN Return(merged)
        ELSE IF ~DictHas(merged, key)
             THEN Return(Append(merged, [key |-> key, item |-> item]))
        ELSE LET i == DictIndex(merged, key)
             IN  Return([merged EXCEPT
                           ![i].item = SetDefault(@, "term_hit", term)])

\* The loop over the results of one response: the dict as the loop left it,
\* and the exception that ended the loop (None when it ran to the end).
RECURSIVE MergeDocs(_, _, _)
MergeDocs(merged, docs, term) ==
  IF docs = <<>> THEN [merged |-> merged, exc |-> None]
  ELSE LET r == MergeDoc(merged, Head(docs), term)
       IN  IF r.raised THEN [merged |-> merged, exc |-> r.exc]
           ELSE MergeDocs(r.val, Tail(docs), term)

\* payload.get("results", [])
Results(payload) == IF payload.has_results THEN payload.results ELSE <<>>

\* f"term={term}: {exc}"
TermError(term, exc) == <<"term=", term, ": ">> \o exc

\* A QueryTerm that, when the loop over the results raises, puts the dict
\* back to what it was before the response.
QueryTerm_Rollback(merged, errors, term, resp) ==
  LET payload == IF resp.raised THEN resp ELSE json_loads(resp.val)
  IN  IF payload.raised
      THEN [merged |-> merged,
            errors |-> Append(errors, TermError(term, payload.exc))]
      ELSE LET r == MergeDocs(merged, Results(payload.val), term)
           IN  IF r.exc = None THEN [merged |-> r.merged, errors |-> errors]
               ELSE [merged |-> merged,
                     errors |-> Append(errors, TermError(term, r.exc))]

\* The try block of one term, lines 119-148: [merged, errors] after it.
QueryTerm(merged, errors, term, resp) ==
  LET payload == IF resp.raised THEN resp ELSE json_loads(resp.val)
  IN  IF payload.raised
      THEN [merged |-> merged,
            errors |-> Append(errors, TermError(term, payload.exc))]
      ELSE LET r == MergeDocs(merged, Results(payload.val), term)
           IN  [merged |-> r.merged,
                errors |-> IF r.exc = None THEN errors
                           ELSE Append(errors, TermError(term, r.exc))]

\* Python's comparison of str: by code point, a proper prefix first.
CharOrder ==
  << " ", "-", "/", "0","1","2","3","4","5","6","7","8","9", ":",
     "A","B","C","D","E","F","G","H","I","J","K","L","M",
     "N","O","P","Q","R","S","T","U","V","W","X","Y","Z",
     "a","b","c","d","e","f","g","h","i","j","k","l","m",
     "n","o","p","q","r","s","t","u","v","w","x","y","z" >>

Ord == [c \in {CharOrder[i] : i \in 1..Len(CharOrder)} |->
          CHOOSE i \in 1..Len(CharOrder) : CharOrder[i] = c]

StrLess(a, b) ==
  LET n == Min(Len(a), Len(b))
      diff == { i \in 1..n : a[i] # b[i] }
  IN  IF diff = {} THEN Len(a) < Len(b)
      ELSE LET i == CHOOSE i \in diff : \A j \in diff : i <= j
           IN  Ord[a[i]] < Ord[b[i]]

\* The sort key of line 152.
SortKey(x) == << Or(x.publication_date, <<>>), Or(x.document_number, <<>>) >>

KeyLess(k1, k2) ==
  \/ StrLess(k1[1], k2[1])
  \/ k1[1] = k2[1] /\ StrLess(k1[2], k2[2])

\* sorted(..., reverse=True): descending, and stable (items with equal keys
\* keep their order).
RECURSIVE MergeDesc(_, _)
MergeDesc(l, r) ==
  IF l = <<>> THEN r
  ELSE IF r = <<>> THEN l
  ELSE IF KeyLess(SortKey(Head(l)), SortKey(Head(r)))
       THEN <<Head(r)>> \o MergeDesc(l, Tail(r))
       ELSE <<Head(l)>> \o MergeDesc(Tail(l), r)

RECURSIVE SortedDesc(_)
SortedDesc(xs) ==
  IF Len(xs) <= 1 THEN xs
  ELSE LET h == Len(xs) \div 2
       IN  MergeDesc(SortedDesc(SubSeq(xs, 1, h)),
                     SortedDesc(SubSeq(xs, h + 1, Len(xs))))

DictValues(merged) == [i \in 1..Len(merged) |-> merged[i].item]

\* A FederalRegisterResult that cuts the list before sorting it.
FederalRegisterResult_CutFirst(merged, errors) ==
  [FetchResult("federal_register") EXCEPT
     !.errors = errors,
     !.items = SortedDesc(Take(DictValues(merged), FederalRegisterCap))]

\* Lines 150-156.
FederalRegisterResult(merged, errors) ==
  [FetchResult("federal_register") EXCEPT
     !.errors = errors,
     !.items = Take(SortedDesc(DictValues(merged)), FederalRegisterCap)]

(***************************************************************************)
(* The responses of the network: what fetch_text(url) can do.  `rich`      *)
(* selects the inputs of the fetchers run on their own (feeds longer than  *)
(* the caps); a whole run of build_payload draws from the short ones.      *)
(***************************************************************************)
\* Feeds run from no entry to MaxExtra entries more than the source's cap.
MaxExtra == 2
\* The longest "results" list of which every filling is enumerated.
MaxDocs == 1

Digit == <<"0","1","2","3","4","5","6","7","8","9">>

\* i as three decimal digits
Num(i) == << Digit[((i \div 100) % 10) + 1], Digit[((i \div 10) % 10) + 1],
             Digit[(i % 10) + 1] >>

Timeout == <<"<urlopen error timed out>">>
Http503 == <<"HTTP Error 503: Service Unavailable">>

RaiseSet(rich) == IF rich THEN {Raise(Timeout), Raise(Http503)}
                  ELSE {Raise(Timeout)}

RelevantTitle == <<" ","I","m","p","o","r","t"," "," ","D","U","T","Y","\n">>
PlainTitle == <<"F","e","e","s">>

\* Entry i of an RSS feed of n entries, by pattern.
RssItem(pat, i, n) ==
  LET rel == CASE pat = "all"  -> TRUE
               [] pat = "odd"  -> i % 2 = 1
               [] pat = "last" -> i = n
               [] OTHER        -> FALSE
  IN  [ title       |-> IF rel THEN RelevantTitle ELSE PlainTitle,
        link        |-> <<"l">> \o Num(i),
        pubDate     |-> IF i % 2 = 0 THEN None ELSE <<"M","o","n">>,
        guid        |-> None,
        description |-> IF pat = "desc"
                        THEN <<"<","b",">","t","r","a","d","e","<","/","b",">","&amp;">>
                        ELSE <<"<","p",">","n","e","w","s","<","/","p",">">>,
        category    |-> IF pat = "cat"
                        THEN << <<"C","u","s","t","o","m","s">>, <<" ">>, <<"E","U">> >>
                        ELSE <<>> ]

RssFeed(pat, n) ==
  [wellformed |-> TRUE, channel |-> TRUE,
   items |-> [i \in 1..n |-> RssItem(pat, i, n)]]

MalformedXml == [wellformed |-> FALSE, channel |-> FALSE, items |-> <<>>]
NoChannel == [wellformed |-> TRUE, channel |-> FALSE, items |-> <<>>]

RssResponses(rich, cap) ==
  RaiseSet(rich) \cup {Return(MalformedXml)}
  \cup (IF rich
        THEN {Return(NoChannel)} \cup
             { Return(RssFeed(pat, n)) :
                 pat \in {"none", "all", "odd", "last", "cat", "desc"},
                 n \in 0..(cap + MaxExtra) }
        ELSE { Return(RssFeed("odd", 2)) })

AtomEntry(pat, i, n) ==
  LET rel == CASE pat = "all"  -> TRUE
               [] pat = "odd"  -> i % 2 = 1
               [] pat = "last" -> i = n
               [] OTHER        -> FALSE
  IN  [ title   |-> PlainTitle,
        link    |-> IF i % 2 = 0 THEN None ELSE <<"l">> \o Num(i),
        updated |-> <<"2","0","2","5">>,
        summary |-> IF rel THEN <<"T","a","r","i","f","f","s">> ELSE None ]

AtomFeed(pat, n) ==
  [wellformed |-> TRUE, entries |-> [i \in 1..n |-> AtomEntry(pat, i, n)]]

AtomResponses(rich) ==
  RaiseSet(rich) \cup {Return([wellformed |-> FALSE, entries |-> <<>>])}
  \cup (IF rich
        THEN { Return(AtomFeed(pat, n)) :
                 pat \in {"none", "all", "odd", "last"},
                 n \in 0..(UkCap + MaxExtra) }
        ELSE { Return(AtomFeed("odd", 2)) })

\* Anchor i of a MOFCOM page: "dup" repeats every href once, "abs" gives
\* absolute hrefs, "spokes" titles every other entry "Spokesperson".
MofcomAnchor(pat, i) ==
  LET id == IF pat = "dup" THEN (i + 1) \div 2 ELSE i
      path == IF i % 3 = 0
              THEN <<"/News/SpokesmansRemarks", "/">> \o Num(id)
              ELSE <<"/News/SpokesmansRemarks", "/art/",
                     IF i % 3 = 1 THEN "2025" ELSE "25", "/">> \o Num(id)
  IN  [ href  |-> IF pat = "abs" THEN <<"http", "://www.mofcom.gov.cn">> \o path
                  ELSE path,
        title |-> CASE pat = "all" -> <<"E","x","p","o","r","t","&amp;","A","I">>
                    [] pat = "spokes" /\ i % 2 = 0 ->
                         <<"S","p","o","k","e","s","p","e","r","s","o","n">>
                    [] OTHER -> <<"M","e","e","t","i","n","g">> ]

MofcomPage(pat, n) == [i \in 1..n |-> MofcomAnchor(pat, i)]

MofcomResponses(rich) ==
  RaiseSet(rich)
  \cup (IF rich
        THEN { Return(MofcomPage(pat, n)) :
                 pat \in {"none", "all", "spokes", "dup", "abs"},
                 n \in 0..(MofcomCap + MaxExtra) }
        ELSE { Return(MofcomPage("all", 1)) })

CanadaResponses(rich) ==
  RaiseSet(rich)
  \cup (IF rich
        THEN { Return([modified |-> m, markers |-> ms]) :
                 m \in {None, <<"2","0","2","5","-","0","9","-","0","1">>},
                 ms \in SUBSET {CanadaMarkers[i] : i \in 1..Len(CanadaMarkers)} }
        ELSE { Return([modified |-> None, markers |-> {CanadaMarkers[3]}]) })

\* Federal Register entries.  DocA and DocA2 carry the same document number
\* with different fields; DocU has no document number and is keyed by its
\* URL; DocI is not relevant; DocK has no key; NotAnObject is no JSON object.
DocA ==
  [ json |-> "object",
    document_number  |-> <<"A","1">>,
    html_url         |-> <<"u","1">>,
    publication_date |-> <<"2","0","2","5","-","0","3","-","0","1">>,
    title            |-> <<"T","a","r","i","f","f"," "," ","r","u","l","e">>,
    abstract         |-> None,
    type             |-> <<"R","u","l","e">>,
    raw_text_url     |-> <<"r","1">> ]
DocA2 ==
  [ json |-> "object",
    document_number  |-> <<"A","1">>,
    html_url         |-> <<"u","9">>,
    publication_date |-> None,
    title            |-> <<"N","o","t","i","c","e">>,
    abstract         |-> <<"d","u","t","i","e","s">>,
    type             |-> <<"N","o","t","i","c","e">>,
    raw_text_url     |-> None ]
DocU ==
  [ json |-> "object",
    document_number  |-> None,
    html_url         |-> <<"u","2">>,
    publication_date |-> None,
    title            |-> <<"T","r","a","d","e">>,
    abstract         |-> None,
    type             |-> None,
    raw_text_url     |-> None ]
DocI ==
  [ json |-> "object",
    document_number  |-> <<"A","2">>,
    html_url         |-> <<"u","3">>,
    publication_date |-> <<"2","0","2","5","-","0","4","-","0","1">>,
    title            |-> PlainTitle,
    abstract         |-> None,
    type             |-> None,
    raw_text_url     |-> None ]
DocK ==
  [ json |-> "object",
    document_number  |-> None,
    html_url         |-> None,
    publication_date |-> None,
    title            |-> <<"T","a","r","i","f","f">>,
    abstract         |-> None,
    type             |-> None,
    raw_text_url     |-> None ]
NotAnObject == [json |-> "string"]

DocUniverse == {DocA, DocA2, DocU, DocI, NotAnObject}

\* Entry i of a full page: relevant, with its own document number, the dates
\* cycling so that the order of the page is not the sorted order.
PageDoc(i) ==
  [ json |-> "object",
    document_number  |-> <<"B">> \o Num(i),
    html_url         |-> <<"p">> \o Num(i),
    publication_date |-> IF i % 3 = 0 THEN None
                         ELSE <<"2","0","2","5","-","0", Digit[(i % 3) + 1]>>,
    title            |-> <<"D","u","t","y">>,
    abstract         |-> None,
    type             |-> None,
    raw_text_url     |-> None ]

\* A full page: n relevant entries with document numbers, after an entry
\* without a key and before one that is not relevant.
Page(n) == <<DocK>> \o [i \in 1..n |-> PageDoc(i)] \o <<DocI>>

JsonBody(results) ==
  [wellformed |-> TRUE, has_results |-> TRUE, results |-> results]
NoResults == [wellformed |-> TRUE, has_results |-> FALSE, results |-> <<>>]
MalformedJson ==
  [wellformed |-> FALSE, has_results |-> FALSE, results |-> <<>>]

RECURSIVE SeqsUpTo(_, _)
SeqsUpTo(S, n) ==
  IF n = 0 THEN {<<>>}
  ELSE LET shorter == SeqsUpTo(S, n - 1)
       IN  shorter \cup { Append(q, x) : q \in shorter, x \in S }

\* Longer lists: a key twice in one response, and entries before and after
\* one that is no object.
LongerResults ==
  { <<DocA, DocA2>>, <<DocA2, DocA>>, <<DocU, NotAnObject>>,
    <<NotAnObject, DocA>> }

RichFederalRegister ==
  {Raise(Timeout), Return(NoResults)}
  \cup { Return(JsonBody(docs)) :
           docs \in SeqsUpTo(DocUniverse, MaxDocs) \cup LongerResults }

\* With the two keys of DocUniverse the dict then holds up to MaxExtra entries
\* more than the cap.
FullPages == { Return(JsonBody(Page(FederalRegisterCap - 2 + MaxExtra))) }

ShortFederalRegister ==
  {Raise(Timeout), Return(MalformedJson), Return(JsonBody(<<DocK, DocA>>))}

\* The responses to the query for term number t.  Full pages are what the
\* first and broadest query ("tariff") may get.
FederalRegisterResponses(rich, t) ==
  IF rich
  THEN RichFederalRegister \cup (IF t = 1 THEN FullPages ELSE {})
  ELSE ShortFederalRegister

(***************************************************************************)
(* State.  build_payload calls the six fetchers in the order of its dict   *)
(* literal and then returns the snapshot; fetch_federal_register makes one *)
(* request per term.  `whole` tells a run of build_payload (TRUE) from a   *)
(* fetcher called on its own (FALSE).                                      *)
(***************************************************************************)
VARIABLES
  pc,        \* the fetcher being run, "assemble", "done" or "returned"
  term,      \* fetch_federal_register: index of the next term to query
  merged,    \* fetch_federal_register: its dict
  errors,    \* fetch_federal_register: out["errors"]
  results,   \* the FetchResult each fetcher returned, NotYet before
  snapshot,  \* what build_payload returned, NotYet before
  attempts,  \* how many times fetch_text was called for each request
  got,       \* the response each single-request fetcher received
  hist       \* fetch_federal_register: the terms whose query failed, the
             \* first relevant entry seen under each identity key, and
             \* whether a key was seen again by a later query

vars == <<pc, term, merged, errors, results, snapshot, attempts, got, hist>>

NotYet == [pending |-> TRUE]

SourceOrder ==
  << "federal_register", "cbp_csms", "eu_commission", "uk_dbt",
     "china_mofcom", "canada_finance" >>

Sources == {SourceOrder[i] : i \in 1..Len(SourceOrder)}

SingleSources == Sources \ {"federal_register"}

Terms == FEEDS["federal_register"].terms

\* One request per term and one per single-request source.
Requests == {Terms[i] : i \in 1..Len(Terms)} \cup SingleSources

\* Where control goes when fetcher number i returns.
After(i, whole) ==
  IF ~whole THEN "returned"
  ELSE IF i < Len(SourceOrder) THEN SourceOrder[i + 1]
  ELSE "assemble"

\* Whether the query of a term fails: the retrieval raises, the body is not
\* JSON, or an entry of its results is no object.
QueryFails(resp) ==
  \/ resp.raised
  \/ ~resp.val.wellformed
  \/ \E i \in 1..Len(Results(resp.val)) :
       Results(resp.val)[i].json # "object"

DocKey(doc) == Or(Or(doc.document_number, <<>>), Or(doc.html_url, <<>>))

DocRelevant(doc) ==
  contains_keyword(normalize_ws(Or(doc.title, <<>>)) \o <<" ">>
                   \o normalize_ws(Or(doc.abstract, <<>>)))

\* The entries of `docs` before the first that is no object.
Processed(docs) ==
  LET bad == { i \in 1..Len(docs) : docs[i].json # "object" }
  IN  IF bad = {} THEN docs
      ELSE SubSeq(docs, 1, (CHOOSE i \in bad : \A j \in bad : i <= j) - 1)

\* h after the entries of `docs` were seen: a relevant entry under a key not
\* seen before is added to h.first, and one under a key first seen in an
\* earlier query sets h.again.
Seen(h, docs, t) ==
  LET p == Processed(docs)
      rel == { i \in 1..Len(p) : DocKey(p[i]) # <<>> /\ DocRelevant(p[i]) }
      old == { h.first[i].key : i \in 1..Len(h.first) }
      new == { i \in rel : /\ DocKey(p[i]) \notin old
                           /\ \A j \in rel : j < i => DocKey(p[j]) # DocKey(p[i]) }
      idx == SelectSeq([i \in 1..Len(p) |-> i], LAMBDA i : i \in new)
  IN  [h EXCEPT
         !.first = @ \o [n \in 1..Len(idx) |->
                           [key |-> DocKey(p[idx[n]]), doc |-> p[idx[n]],
                            term |-> t]],
         !.again = @ \/ \E i \in rel : DocKey(p[i]) \in old]

Record(h, resp, t) ==
  LET h1 == IF QueryFails(resp) THEN [h EXCEPT !.failed = Append(@, t)] ELSE h
  IN  IF resp.raised \/ ~resp.val.wellformed THEN h1
      ELSE Seen(h1, Results(resp.val), t)

StartState ==
  /\ term = 1
  /\ merged = <<>>
  /\ errors = <<>>
  /\ results = [s \in Sources |-> NotYet]
  /\ snapshot = NotYet
  /\ attempts = [r \in Requests |-> 0]
  /\ got = [s \in SingleSources |-> NotYet]
  /\ hist = [failed |-> <<>>, first |-> <<>>, again |-> FALSE]

Init == pc = "federal_register" /\ StartState

FetcherInit == pc \in Sources /\ StartState

\* A loop over the terms that queries a term a second time when its first
\* query failed.
QueryFederalRegister_Retry(whole) ==
  /\ pc = "federal_register"
  /\ term <= Len(Terms)
  /\ \E resp \in FederalRegisterResponses(~whole, term) :
       /\ LET q == QueryTerm(merged, errors, Terms[term], resp)
          IN  /\ merged' = q.merged
              /\ errors' = q.errors
              /\ hist' = Record(hist, resp, Terms[term])
       /\ term' = IF QueryFails(resp) /\ attempts[Terms[term]] = 0
                  THEN term ELSE term + 1
  /\ attempts' = [attempts EXCEPT ![Terms[term]] = @ + 1]
  /\ UNCHANGED <<pc, results, snapshot, got>>

\* One pass of the loop over the terms, lines 111-148.
QueryFederalRegister(whole) ==
  /\ pc = "federal_register"
  /\ term <= Len(Terms)
  /\ \E resp \in FederalRegisterResponses(~whole, term) :
       LET q == QueryTerm(merged, errors, Terms[term], resp)
       IN  /\ merged' = q.merged
           /\ errors' = q.errors
           /\ hist' = Record(hist, resp, Terms[term])
  /\ attempts' = [attempts EXCEPT ![Terms[term]] = @ + 1]
  /\ term' = term + 1
  /\ UNCHANGED <<pc, results, snapshot, got>>

\* Lines 150-156.
ReturnFederalRegister(whole) ==
  /\ pc = "federal_register"
  /\ term > Len(Terms)
  /\ results' = [results EXCEPT
                   !["federal_register"] = FederalRegisterResult(merged, errors)]
  /\ pc' = After(1, whole)
  /\ UNCHANGED <<term, merged, errors, snapshot, attempts, got, hist>>

\* The single-request fetchers, each from its call of fetch_text to its
\* return.
CallCbp(whole) ==
  /\ pc = "cbp_csms"
  /\ \E resp \in RssResponses(~whole, CbpCap) :
       /\ results' = [results EXCEPT !["cbp_csms"] = fetch_cbp_csms(resp)]
       /\ got' = [got EXCEPT !["cbp_csms"] = resp]
  /\ attempts' = [attempts EXCEPT !["cbp_csms"] = @ + 1]
  /\ pc' = After(2, whole)
  /\ UNCHANGED <<term, merged, errors, snapshot, hist>>

CallEu(whole) ==
  /\ pc = "eu_commission"
  /\ \E resp \in RssResponses(~whole, EuCap) :
       /\ results' = [results EXCEPT !["eu_commission"] = fetch_eu_feed(resp)]
       /\ got' = [got EXCEPT !["eu_commission"] = resp]
  /\ attempts' = [attempts EXCEPT !["eu_commission"] = @ + 1]
  /\ pc' = After(3, whole)
  /\ UNCHANGED <<term, merged, errors, snapshot, hist>>

CallUk(whole) ==
  /\ pc = "uk_dbt"
  /\ \E resp \in AtomResponses(~whole) :
       /\ results' = [results EXCEPT !["uk_dbt"] = fetch_uk_feed(resp)]
       /\ got' = [got EXCEPT !["uk_dbt"] = resp]
  /\ attempts' = [attempts EXCEPT !["uk_dbt"] = @ + 1]
  /\ pc' = After(4, whole)
  /\ UNCHANGED <<term, merged, errors, snapshot, hist>>

CallMofcom(whole) ==
  /\ pc = "china_mofcom"
  /\ \E resp \in MofcomResponses(~whole) :
       /\ results' = [results EXCEPT
                        !["china_mofcom"] = fetch_china_mofcom(resp)]
       /\ got' = [got EXCEPT !["china_mofcom"] = resp]
  /\ attempts' = [attempts EXCEPT !["china_mofcom"] = @ + 1]
  /\ pc' = After(5, whole)
  /\ UNCHANGED <<term, merged, errors, snapshot, hist>>

CallCanada(whole) ==
  /\ pc = "canada_finance"
  /\ \E resp \in CanadaResponses(~whole) :
       /\ results' = [results EXCEPT
                        !["canada_finance"] = fetch_canada_page(resp)]
       /\ got' = [got EXCEPT !["canada_finance"] = resp]
  /\ attempts' = [attempts EXCEPT !["canada_finance"] = @ + 1]
  /\ pc' = After(6, whole)
  /\ UNCHANGED <<term, merged, errors, snapshot, hist>>

\* A build_payload that leaves a source whose request failed out of the
\* snapshot.
Assemble_Partial ==
  /\ pc = "assemble"
  /\ snapshot' =
       [ generated_at |-> "now_utc_iso()",
         about |->
           [ description |-> "Automated live intelligence pull from official government/legal sources.",
             keyword_filter |-> KEYWORDS ],
         feeds |->
           [ federal_register |-> results["federal_register"],
             cbp_csms |-> results["cbp_csms"],
             retaliation |->
               [ s \in { r \in {"eu_commission", "uk_dbt", "china_mofcom",
                                 "canada_finance"} : results[r].errors = <<>> }
                   |-> results[s] ] ] ]
  /\ pc' = "done"
  /\ UNCHANGED <<term, merged, errors, results, attempts, got, hist>>

\* build_payload's return, lines 347-363.
Assemble ==
  /\ pc = "assemble"
  /\ snapshot' =
       [ generated_at |-> "now_utc_iso()",
         about |->
           [ description |-> "Automated live intelligence pull from official government/legal sources.",
             keyword_filter |-> KEYWORDS ],
         feeds |->
           [ federal_register |-> results["federal_register"],
             cbp_csms |-> results["cbp_csms"],
             retaliation |->
               [ eu_commission  |-> results["eu_commission"],
                 uk_dbt         |-> results["uk_dbt"],
                 china_mofcom   |-> results["china_mofcom"],
                 canada_finance |-> results["canada_finance"] ] ] ]
  /\ pc' = "done"
  /\ UNCHANGED <<term, merged, errors, results, attempts, got, hist>>

Next ==
  \/ QueryFederalRegister(TRUE)
  \/ ReturnFederalRegister(TRUE)
  \/ CallCbp(TRUE)
  \/ CallEu(TRUE)
  \/ CallUk(TRUE)
  \/ CallMofcom(TRUE)
  \/ CallCanada(TRUE)
  \/ Assemble

\* A run of build_payload.
Spec == Init /\ [][Next]_vars

FetcherNext ==
  \/ QueryFederalRegister(FALSE)
  \/ ReturnFederalRegister(FALSE)
  \/ CallCbp(FALSE)
  \/ CallEu(FALSE)
  \/ CallUk(FALSE)
  \/ CallMofcom(FALSE)
  \/ CallCanada(FALSE)

\* Each fetcher called on its own, on every response of the rich sets.
FetcherSpec == FetcherInit /\ [][FetcherNext]_vars

(***************************************************************************)
(* Properties                                                              *)
(***************************************************************************)
XmlSources == {"cbp_csms", "eu_commission", "uk_dbt"}

\* Whether the one request of a single-request source fails: the retrieval
\* raises, or the body is XML that does not parse.
RequestFails(s, resp) ==
  resp.raised \/ (s \in XmlSources /\ ~resp.val.wellformed)

\* str(exc) of that failure.
FailureMessage(s, resp) ==
  IF resp.raised THEN resp.exc
  ELSE IF s = "uk_dbt" THEN parse_atom_entries(resp.val).exc
  ELSE parse_rss_items(resp.val).exc

Fetcher(s, resp) ==
  CASE s = "cbp_csms"       -> fetch_cbp_csms(resp)
    [] s = "eu_commission"  -> fetch_eu_feed(resp)
    [] s = "uk_dbt"         -> fetch_uk_feed(resp)
    [] s = "china_mofcom"   -> fetch_china_mofcom(resp)
    [] s = "canada_finance" -> fetch_canada_page(resp)

Returned(s) == results[s] # NotYet

\* The candidate items of a successful response, before any filter.
Candidates(s, resp) ==
  CASE s = "uk_dbt"       -> parse_atom_entries(resp.val).val
    [] s = "china_mofcom" -> MofcomRows(resp.val, {})
    [] OTHER              -> parse_rss_items(resp.val).val

\* The keyword filter over the fields the source filters on.
KeywordMatch(s, i) ==
  CASE s = "cbp_csms"      -> CbpRelevant(i)
    [] s = "eu_commission" -> EuRelevant(i)
    [] s = "uk_dbt"        -> UkRelevant(i)
    [] s = "china_mofcom"  -> contains_keyword(i.title)

\* No candidate passes the keyword filter.
NoKeywordMatch(s, cands) ==
  \A i \in 1..Len(cands) : ~KeywordMatch(s, cands[i])

TermIndex(t) == CHOOSE i \in 1..Len(Terms) : Terms[i] = t

(* C1: in build_payload, a source whose request fails has at least one    *)
(* error, a source whose requests all succeed (retrieved and parsed) has   *)
(* none, and each source's FetchResult is what its fetcher makes of its    *)
(* own responses alone: whatever the other sources received, failure or    *)
(* success, it is the same.                                                *)
C1_FailureIsolated ==
  /\ \A s \in SingleSources : Returned(s) =>
       /\ results[s] = Fetcher(s, got[s])
       /\ RequestFails(s, got[s]) => Len(results[s].errors) >= 1
       /\ ~RequestFails(s, got[s]) => results[s].errors = <<>>
  /\ Returned("federal_register") =>
       /\ results["federal_register"] = FederalRegisterResult(merged, errors)
       /\ Len(hist.failed) = Len(Terms)
            => Len(results["federal_register"].errors) >= 1
       /\ hist.failed = <<>> => results["federal_register"].errors = <<>>

\* cbp_csms failed; the sources before and after it succeeded, with items
\* and without errors.
C1_Witness ==
  /\ pc = "done"
  /\ got["cbp_csms"].raised
  /\ Len(results["cbp_csms"].errors) = 1
  /\ hist.failed = <<>>
  /\ results["federal_register"].items # <<>>
  /\ ~RequestFails("eu_commission", got["eu_commission"])
  /\ results["eu_commission"].items # <<>>
  /\ results["eu_commission"].errors = <<>>

\* The FetchResult of source s in the snapshot.
FeedOf(snap, s) ==
  IF s \in {"federal_register", "cbp_csms"} THEN snap.feeds[s]
  ELSE snap.feeds.retaliation[s]

SnapshotShape(snap) ==
  /\ DOMAIN snap.feeds = {"federal_register", "cbp_csms", "retaliation"}
  /\ DOMAIN snap.feeds.retaliation =
       {"eu_commission", "uk_dbt", "china_mofcom", "canada_finance"}
  /\ \A s \in Sources :
       {"source", "source_url", "items", "errors"} \subseteq DOMAIN FeedOf(snap, s)

\* A fetch that failed totally: the one request failed, or every query of
\* the Federal Register failed and none delivered a relevant entry.
TotalFailure(s) ==
  IF s = "federal_register"
  THEN Len(hist.failed) = Len(Terms) /\ hist.first = <<>>
  ELSE RequestFails(s, got[s])

(* C2 as stated: the snapshot holds a FetchResult for each of the six      *)
(* sources, and every source whose fetch failed totally has items empty    *)
(* and errors non-empty.                                                   *)
C2_Original ==
  pc = "done" =>
    /\ SnapshotShape(snapshot)
    /\ \A s \in Sources : TotalFailure(s) =>
         /\ FeedOf(snapshot, s).items = <<>>
         /\ FeedOf(snapshot, s).errors # <<>>

(* C2 amended: the snapshot holds a FetchResult for each of the six        *)
(* sources; a source whose fetch failed totally has errors non-empty, and  *)
(* items empty unless it is china_mofcom, whose items are then the one     *)
(* placeholder item.                                                       *)
C2_ShapeAndFailure ==
  pc = "done" =>
    /\ SnapshotShape(snapshot)
    /\ \A s \in Sources : TotalFailure(s) =>
         /\ FeedOf(snapshot, s).items =
              IF s = "china_mofcom" THEN <<MofcomPlaceholder>> ELSE <<>>
         /\ FeedOf(snapshot, s).errors # <<>>

\* Every source failed totally and the snapshot was returned.
C2_Witness ==
  /\ pc = "done"
  /\ \A s \in Sources : TotalFailure(s)
  /\ SnapshotShape(snapshot)

AllAttempted == \A r \in Requests : attempts[r] = 1

\* Position p of control in build_payload: the fetchers in the order they
\* are called, then the return.
PcIndex(p) ==
  IF p = "assemble" THEN Len(SourceOrder) + 1
  ELSE IF p = "done" THEN Len(SourceOrder) + 2
  ELSE CHOOSE i \in 1..Len(SourceOrder) : SourceOrder[i] = p

\* Whether control has passed the call of fetch_text for request r.
Passed(r) ==
  IF r \in SingleSources
  THEN \E i \in 1..Len(SourceOrder) : SourceOrder[i] = r /\ PcIndex(pc) > i
  ELSE pc # "federal_register" \/ term > TermIndex(r)

\* A step moves control forward: to a later fetcher or the return, or to
\* the next term of fetch_federal_register.
Advances ==
  \/ PcIndex(pc') > PcIndex(pc)
  \/ pc' = pc /\ term' = term + 1 /\ term <= Len(Terms)

FirstItem(f) ==
  [ document_number  |-> Or(f.doc.document_number, <<>>),
    publication_date |-> f.doc.publication_date,
    title            |-> normalize_ws(Or(f.doc.title, <<>>)),
    type             |-> f.doc.type,
    html_url         |-> f.doc.html_url,
    raw_text_url     |-> f.doc.raw_text_url,
    term_hit         |-> f.term ]

\* The dict holds one entry per identity key seen, in the order the keys
\* were first seen.
MergedIsFirstSeen ==
  /\ Len(merged) = Len(hist.first)
  /\ \A i \in 1..Len(merged) : merged[i].key = hist.first[i].key

(* C3: in fetch_federal_register each identity key is in at most one       *)
(* merged item, and that item has the field values, term_hit included, of  *)
(* the first relevant entry seen with that key, whatever later entries of  *)
(* the same or of later queries carry; the returned items are among them.  *)
C3_FirstEntryKept ==
  /\ MergedIsFirstSeen
  /\ \A i \in 1..Len(merged) :
       /\ merged[i].item = FirstItem(hist.first[i])
       /\ \A j \in 1..Len(merged) : merged[i].key = merged[j].key => i = j
  /\ Returned("federal_register") =>
       \A k \in 1..Len(results["federal_register"].items) :
         \E i \in 1..Len(merged) :
           results["federal_register"].items[k] = merged[i].item

\* Document A1 came back from the query for "tariff" and again, with other
\* field values, from a later query; the returned item is the first one.
C3_Witness ==
  /\ pc = "returned"
  /\ Returned("federal_register")
  /\ hist.again
  /\ hist.failed = <<>>
  /\ results["federal_register"].items = << FirstItem([doc |-> DocA, term |-> Terms[1]]) >>
  /\ results["federal_register"].items[1].term_hit = "tariff"

\* Whether the response of a single-request source brought candidates.
Succeeded(s) == Returned(s) /\ ~RequestFails(s, got[s])

\* The filter of a source with fallback, as the code applies it.
FallbackMatch(s, i) ==
  IF s = "china_mofcom" THEN MofcomRelevant(i) ELSE KeywordMatch(s, i)

NoFallbackMatch(s, cands) ==
  \A i \in 1..Len(cands) : ~FallbackMatch(s, cands[i])

FallbackSources == {"eu_commission", "china_mofcom"}

(* C4 as stated: for eu_commission and china_mofcom, when the request      *)
(* succeeds and the keyword filter matches none of the candidates, the     *)
(* items are the first min(N, 25) candidates in their order.               *)
C4_Original ==
  \A s \in FallbackSources :
    (Succeeded(s) /\ NoKeywordMatch(s, Candidates(s, got[s])))
      => results[s].items = Take(Candidates(s, got[s]), 25)

(* C4 amended: for eu_commission and china_mofcom, when the request        *)
(* succeeds and the source's filter matches none of the candidates, the    *)
(* items are the first min(N, 25) candidates in their order; the filter of *)
(* eu_commission is the keyword filter, and that of china_mofcom is: the   *)
(* title holds a keyword or the word "spokesperson".                       *)
C4_Fallback ==
  \A s \in FallbackSources :
    (Succeeded(s) /\ NoFallbackMatch(s, Candidates(s, got[s])))
      => results[s].items = Take(Candidates(s, got[s]), 25)

\* eu_commission got more candidates than its cap, none relevant, and
\* returned the first 25 of them.
C4_Witness ==
  /\ Succeeded("eu_commission")
  /\ Len(Candidates("eu_commission", got["eu_commission"])) > EuCap
  /\ NoFallbackMatch("eu_commission",
                     Candidates("eu_commission", got["eu_commission"]))
  /\ Len(results["eu_commission"].items) = EuCap
  /\ results["eu_commission"].items[1].title = PlainTitle

StrictSources == {"cbp_csms", "uk_dbt"}

(* C5: for cbp_csms, uk_dbt and federal_register, when every request       *)
(* succeeds and no candidate passes the keyword filter, the FetchResult    *)
(* has items empty and errors empty; a failed fetch has errors non-empty.  *)
C5_EmptySuccess ==
  /\ \A s \in StrictSources :
       /\ (Succeeded(s) /\ NoKeywordMatch(s, Candidates(s, got[s])))
            => results[s].items = <<>> /\ results[s].errors = <<>>
       /\ (Returned(s) /\ RequestFails(s, got[s])) => results[s].errors # <<>>
  /\ Returned("federal_register") =>
       /\ (hist.failed = <<>> /\ hist.first = <<>>)
            => /\ results["federal_register"].items = <<>>
               /\ results["federal_register"].errors = <<>>
       /\ hist.failed # <<>> => results["federal_register"].errors # <<>>

\* uk_dbt got entries, none with a keyword, and returned nothing, without
\* an error.
C5_Witness ==
  /\ Succeeded("uk_dbt")
  /\ Len(Candidates("uk_dbt", got["uk_dbt"])) >= 2
  /\ NoKeywordMatch("uk_dbt", Candidates("uk_dbt", got["uk_dbt"]))
  /\ results["uk_dbt"].items = <<>>
  /\ results["uk_dbt"].errors = <<>>

\* The cap on the items of each source; fetch_canada_page builds one item.
Cap(s) ==
  CASE s = "federal_register" -> FederalRegisterCap
    [] s = "cbp_csms"         -> CbpCap
    [] s = "eu_commission"    -> EuCap
    [] s = "uk_dbt"           -> UkCap
    [] s = "china_mofcom"     -> MofcomCap
    [] s = "canada_finance"   -> 1

(* C6: whatever a source receives, the items of its FetchResult are never  *)
(* more than its cap: 80 for federal_register, 40 for cbp_csms, 25 for     *)
(* eu_commission, uk_dbt and china_mofcom, 1 for canada_finance.           *)
C6_Capped ==
  \A s \in Sources : Returned(s) => Len(results[s].items) <= Cap(s)

\* china_mofcom got more rows than its cap, none of them relevant, and the
\* fallback returned exactly 25.
C6_Witness ==
  /\ Succeeded("china_mofcom")
  /\ Len(Candidates("china_mofcom", got["china_mofcom"])) > MofcomCap
  /\ NoFallbackMatch("china_mofcom",
                     Candidates("china_mofcom", got["china_mofcom"]))
  /\ Len(results["china_mofcom"].items) = MofcomCap

\* The identity key of a merged item.
ItemKey(x) == Or(x.document_number, Or(x.html_url, <<>>))

\* The sort key C7 states: the date, then the identity key.
StatedKey(x) == << Or(x.publication_date, <<>>), ItemKey(x) >>

\* The position of item x in the dict.
MergedIndex(x) == CHOOSE i \in 1..Len(merged) : merged[i].item = x

(* C7 as stated: the items returned by fetch_federal_register descend by   *)
(* the pair (date or "", identity key).                                    *)
C7_Original ==
  Returned("federal_register") =>
    LET items == results["federal_register"].items
    IN  \A k \in 1..(Len(items) - 1) :
          ~KeyLess(StatedKey(items[k]), StatedKey(items[k + 1]))

(* C7 amended: the items returned by fetch_federal_register descend by the *)
(* pair (publication_date or "", document_number or ""), compared as       *)
(* strings, items with equal pairs staying in the order they were merged;  *)
(* an item without document number sorts with "" there, not with its URL.  *)
(* The cut to 80 comes after the sort: the items are min(n, 80) of the n   *)
(* merged, and no merged item left out is greater than the last returned.  *)
C7_SortedThenCut ==
  Returned("federal_register") =>
    LET items == results["federal_register"].items
        vals == DictValues(merged)
        in(x) == \E k \in 1..Len(items) : items[k] = x
    IN  /\ Len(items) = Min(Len(vals), 80)
        /\ \A k \in 1..(Len(items) - 1) :
             /\ ~KeyLess(SortKey(items[k]), SortKey(items[k + 1]))
             /\ SortKey(items[k]) = SortKey(items[k + 1])
                  => MergedIndex(items[k]) < MergedIndex(items[k + 1])
        /\ \A i \in 1..Len(vals) :
             ~in(vals[i]) =>
               /\ ~KeyLess(SortKey(items[Len(items)]), SortKey(vals[i]))
               /\ SortKey(items[Len(items)]) = SortKey(vals[i])
                    => MergedIndex(items[Len(items)]) < i

\* More than 80 items were merged, in an order that is not the sorted one;
\* 80 are returned, the newest first.
C7_Witness ==
  /\ Returned("federal_register")
  /\ Len(merged) > FederalRegisterCap
  /\ Len(results["federal_register"].items) = FederalRegisterCap
  /\ results["federal_register"].items # Take(DictValues(merged), FederalRegisterCap)
  /\ results["federal_register"].items[1] = FirstItem([doc |-> DocA, term |-> Terms[2]])

(* C8: when the request of a single-request source fails, retrieval or     *)
(* parse, the errors of its FetchResult are exactly the one exception      *)
(* message; the items of china_mofcom are then exactly the placeholder     *)
(* item, whose link is the source's URL, and those of the other sources    *)
(* are empty.  The placeholder is among the items of china_mofcom only     *)
(* when its errors are non-empty.                                          *)
C8_FailurePolicy ==
  /\ \A s \in SingleSources :
       (Returned(s) /\ RequestFails(s, got[s])) =>
         /\ results[s].errors = << FailureMessage(s, got[s]) >>
         /\ results[s].items =
              IF s = "china_mofcom" THEN <<MofcomPlaceholder>> ELSE <<>>
  /\ MofcomPlaceholder.link = FEEDS["china_mofcom"].url
  /\ Returned("china_mofcom") =>
       ((\E k \in 1..Len(results["china_mofcom"].items) :
           results["china_mofcom"].items[k] = MofcomPlaceholder)
        => results["china_mofcom"].errors # <<>>)

\* The request of china_mofcom timed out: one error, one placeholder item
\* that links to the MOFCOM site.
C8_Witness ==
  /\ Returned("china_mofcom")
  /\ got["china_mofcom"] = Raise(Timeout)
  /\ results["china_mofcom"].errors = <<Timeout>>
  /\ Len(results["china_mofcom"].items) = 1
  /\ results["china_mofcom"].items[1].link = MofcomBase \o <<"/">>

(* C10: in fetch_federal_register a failed query, retrieval or parse, ends *)
(* neither the loop nor what was merged: the errors hold exactly one entry *)
(* per failed query, prefixed with its term, in term order; the dict holds *)
(* the relevant entries of all responses, those processed before a failure *)
(* in a failing response included; and the function returns, after every   *)
(* term was queried, these errors together with the items of the dict.     *)
C10_FailureKeepsItems ==
  /\ Len(errors) = Len(hist.failed)
  /\ \A i \in 1..Len(errors) :
       /\ Len(errors[i]) > 3
       /\ SubSeq(errors[i], 1, 3) = <<"term=", hist.failed[i], ": ">>
       /\ \A j \in 1..Len(errors) :
            i < j => TermIndex(hist.failed[i]) < TermIndex(hist.failed[j])
  /\ MergedIsFirstSeen
  /\ Returned("federal_register") =>
       /\ \A t \in 1..Len(Terms) : attempts[Terms[t]] = 1
       /\ results["federal_register"].errors = errors
       /\ Len(results["federal_register"].items)
            = Min(Len(merged), FederalRegisterCap)
       /\ \A i \in 1..Len(merged) :
            Len(merged) <= FederalRegisterCap =>
              \E k \in 1..Len(results["federal_register"].items) :
                results["federal_register"].items[k] = merged[i].item

\* A query failed in the middle of its response; the entry before the
\* failure is returned, with items of other queries and the error.
C10_Witness ==
  /\ Returned("federal_register")
  /\ Len(results["federal_register"].errors) = 1
  /\ \E i \in 1..Len(hist.first) : hist.first[i].term = hist.failed[1]
  /\ Len(results["federal_register"].items) = 2

=============================================================================
